---- MODULE Spec2Model ----
(***************************************************************************)
(* Model of the photo import pipeline of mypm: the catalog (db/database.py,*)
(* db/photo_dao.py, db/database_manager.py) and the batch import worker    *)
(* (photo_importer.py).                                                    *)
(*                                                                         *)
(* Paths inside the library are written relative to the library root.     *)
(* Direct catalog operations run only while no import worker is running   *)
(* (one writer at a time).                                                 *)
(***************************************************************************)
EXTENDS Integers, Sequences, FiniteSets, TLC

(* ------------------------------ bounds -------------------------------- *)

\* longest candidate list handed to a worker
MaxFiles == 2
\* number of batches started in one behaviour
MaxBatches == 2
\* number of direct catalog operations (insert, update, delete) in one behaviour
MaxDaoOps == 1
\* number of injected environment failures (I/O errors, sqlite3 errors, a failed
\* connect) in one behaviour
MaxFaults == 1
\* largest suffix N of the files name_N.ext a date directory may already hold
\* when a single file is planned and copied
MaxSuffix == 2

(* ------------------------- values and inputs -------------------------- *)

\* the falsy result of add_photo (None); AUTOINCREMENT ids start at 1
NoId == 0
\* json.dumps is skipped for a falsy mapping: the column holds NULL
Null == <<>>

\* Python values of a metadata mapping, tagged with their type: str, int,
\* tuple, list, dict (a sequence of <<key, value>>)
PyStr(x) == <<"str", x>>
PyInt(n) == <<"int", n>>
PyTuple(seq) == <<"tuple", seq>>
PyList(seq) == <<"list", seq>>
PyDict(pairs) == <<"dict", pairs>>

\* bool(x) of a mapping or None
Truthy(x) == x # Null /\ x # PyDict(<<>>)

\* the mapping create_mock_exif_data builds, shortened: scalar fields and a
\* nested GPSInfo mapping whose coordinates are tuples of (numerator,
\* denominator) tuples
MockExif ==
  PyDict(<< <<"Make", PyStr("Canon")>>,
            <<"ISOSpeedRatings", PyInt(100)>>,
            <<"GPSInfo",
              PyDict(<< <<"GPSLatitudeRef", PyStr("N")>>,
                        <<"GPSLatitude",
                          PyTuple(<< PyTuple(<<PyInt(39), PyInt(1)>>),
                                     PyTuple(<<PyInt(54), PyInt(1)>>) >>)>>,
                        <<"GPSAltitude", PyTuple(<<PyInt(45), PyInt(1)>>)>> >>)>> >>)

\* what PIL's _getexif reports for the first source file: a string, a
\* rational as a 2-tuple, and a nested GPS mapping
RawExif ==
  PyDict(<< <<"Make", PyStr("X")>>,
            <<"FNumber", PyTuple(<<PyInt(28), PyInt(10)>>)>>,
            <<"GPSInfo", PyDict(<< <<"GPSLatitudeRef", PyStr("N")>> >>)>> >>)

\* capture timestamps: strftime fields and the time of day
T0305 == [Y |-> "2024", m |-> "03", d |-> "05", t |-> "10:00:00"]
T0306 == [Y |-> "2024", m |-> "03", d |-> "06", t |-> "08:30:00"]

\* the times embedded date tags carry in the files of the resolver's inputs
TOrig == [Y |-> "2023", m |-> "01", d |-> "01", t |-> "09:00:00"]
TDigi == [Y |-> "2023", m |-> "02", d |-> "02", t |-> "09:00:00"]
TModi == [Y |-> "2023", m |-> "03", d |-> "03", t |-> "09:00:00"]

\* candidate source files: base name, extension, content (md5, size), the
\* modification time of the file, the date tags exifread reports for it (a
\* dict as a set of <<tag name, text>>), the result of PIL's _getexif (Null
\* for None).  The second
\* is a byte-identical copy of the first under another name, with a later
\* modification time; the third is other content under the name of the first,
\* taken on the day of the first and modified a day later.
SourceFiles ==
  { [src |-> "in/a.jpg",      name |-> "a",      ext |-> ".jpg", md5 |-> "h1",
     size |-> 10, mtime |-> T0305, tags |-> {}, exif |-> RawExif],
    [src |-> "in/a_copy.PNG", name |-> "a_copy", ext |-> ".PNG", md5 |-> "h1",
     size |-> 10, mtime |-> T0306, tags |-> {}, exif |-> RawExif],
    [src |-> "in2/a.jpg",     name |-> "a",      ext |-> ".jpg", md5 |-> "h2",
     size |-> 20, mtime |-> T0306,
     tags |-> { <<"EXIF DateTimeOriginal", "2024:03:05 10:00:00">> }, exif |-> Null] }

\* candidate lists of at most n files
RECURSIVE FileLists(_)
FileLists(n) ==
  IF n = 0 THEN { <<>> }
  ELSE FileLists(n - 1) \cup
       { Append(l, f) : l \in { x \in FileLists(n - 1) : Len(x) = n - 1 }, f \in SourceFiles }

\* arguments of direct PhotoDAO.insert_photo calls
DaoInserts ==
  { [filename |-> "a.jpg",   path |-> "2024/03/05/a.jpg",   md5 |-> "h1", size |-> 10,
     exif_data |-> MockExif],
    [filename |-> "a.jpg",   path |-> "2024/03/05/a.jpg",   md5 |-> "h3", size |-> 30,
     exif_data |-> Null],
    [filename |-> "a_1.jpg", path |-> "2024/03/05/a_1.jpg", md5 |-> "h2", size |-> 20,
     exif_data |-> Null] }

\* arguments of PhotoDAO.update_photo: a dict as a set of <<key, value>>
DaoUpdates ==
  { { <<"path", "2024/03/05/a.jpg">> },
    { <<"path", "2024/03/05/z.jpg">>, <<"filename", "z.jpg">> },
    { <<"thumbnail_path", "thumbs/1.png">> },
    { <<"md5", "h2">> } }

(* ------------------------------- state -------------------------------- *)

VARIABLES
  photos,        \* rows of table photos
  nextId,        \* sqlite_sequence of photos: the next AUTOINCREMENT id
  photo_count,   \* config value under key 'photo_count'
  now,           \* datetime.now(), a logical clock
  last_dao,      \* name and result of the last direct catalog operation
  daoOps,        \* number of direct catalog operations so far
  libDirs,       \* directories present under the library root
  libFiles,      \* files present under the library root
  libPartial,    \* files of libFiles left incomplete by a failed copy
  files,         \* PhotoImportWorker.files
  is_cancelled,  \* PhotoImportWorker.is_cancelled
  cancel_seen,   \* progress signals emitted before cancel() was called
  connected,     \* whether DatabaseManager.__enter__ obtained a cursor
  pc,            \* position of the worker thread
  i,             \* enumerate index of run's loop (0-based)
  counts,        \* success_count, skip_count, error_count of run
  cur,           \* locals of _import_single_photo for the current file
  events,        \* signals emitted by the worker of the current batch, in order
  hist,          \* what happened to each file the current batch processed
  batches,       \* number of batches started so far
  faults,        \* number of environment failures injected so far
  other,         \* a second PhotoImportWorker on the same library: its position
                 \* and the locals of its _import_single_photo
  dialog         \* the ImportProgressDialog of the batch: its attributes and
                 \* where the batch was when its cancel button was clicked

\* dbvars: the catalog; fsvars: the library directory; daovars: what the first
\* worker never touches; wvars: what a direct catalog operation never touches
dbvars  == <<photos, nextId, photo_count, now>>
fsvars  == <<libDirs, libFiles, libPartial>>
daovars == <<last_dao, daoOps, other, dialog>>
wvars   == <<files, is_cancelled, cancel_seen, connected, pc, i, counts, cur, events,
             hist, batches, other, dialog>>
wvarsOfWorker == <<files, is_cancelled, cancel_seen, connected, pc, i, counts, cur,
                   events, hist, batches>>
vars    == <<photos, nextId, photo_count, now, last_dao, daoOps, libDirs, libFiles,
             libPartial, files, is_cancelled, cancel_seen, connected, pc, i, counts,
             cur, events, hist, batches, faults, other, dialog>>

ProgressEventsOf(evs) == SelectSeq(evs, LAMBDA e : e.sig = "progress_updated")

\* an action that injects a failure spends one unit of the failure budget
Inject(failing) ==
  IF failing THEN faults < MaxFaults /\ faults' = faults + 1 ELSE UNCHANGED faults

(* ------------------------ catalog: db/database.py ---------------------- *)

LiveRows(tbl) == { r \in tbl : r.is_deleted = 0 }

\* the schema without UNIQUE(md5, size)
UniqueViolation_PathOnly(tbl, data) ==
  \E r \in tbl : r.path = data.path

\* the schema without the UNIQUE on path
UniqueViolation_NoPath(tbl, data) ==
  \E r \in tbl : r.md5 = data.md5 /\ r.size = data.size

\* the table constraints of CREATE TABLE photos: path UNIQUE, UNIQUE(md5, size);
\* both range over every row, soft-deleted rows included
UniqueViolation(tbl, data) ==
  \E r \in tbl : r.path = data.path \/ (r.md5 = data.md5 /\ r.size = data.size)

\* the row INSERT INTO photos writes for photo_data; is_deleted takes its default
NewRow(id, data) ==
  [id |-> id, filename |-> data.filename, path |-> data.path, md5 |-> data.md5,
   size |-> data.size, created_at |-> data.created_at,
   imported_at |-> data.imported_at, type |-> data.type,
   exif_json |-> data.exif_json, thumbnail_path |-> data.thumbnail_path,
   is_deleted |-> 0]

\* Database._update_photo_count: str(COUNT(*) WHERE is_deleted = 0)
PhotoCountOf(tbl) == ToString(Cardinality(LiveRows(tbl)))

\* add_photo over a table whose id is INTEGER PRIMARY KEY without
\* AUTOINCREMENT: the new id is one more than the largest id present
add_photo_MaxRowId(tbl, seq, cnt, data, dberr) ==
  LET top == IF tbl = {} THEN 0
             ELSE (CHOOSE r \in tbl : \A q \in tbl : q.id <= r.id).id
  IN IF dberr
       THEN [photos |-> tbl, nextId |-> seq, photo_count |-> cnt, id |-> NoId,
             raised |-> "sqlite3.Error"]
     ELSE IF UniqueViolation(tbl, data)
       THEN [photos |-> tbl, nextId |-> seq, photo_count |-> cnt, id |-> NoId,
             raised |-> "sqlite3.IntegrityError"]
     ELSE [photos |-> tbl \cup {NewRow(top + 1, data)}, nextId |-> top + 2,
           photo_count |-> PhotoCountOf(tbl \cup {NewRow(top + 1, data)}),
           id |-> top + 1, raised |-> "none"]

\* add_photo with INSERT OR REPLACE: the rows the new one collides with are
\* deleted and the insert goes through
add_photo_Replace(tbl, seq, cnt, data, dberr) ==
  IF dberr
    THEN [photos |-> tbl, nextId |-> seq, photo_count |-> cnt, id |-> NoId,
          raised |-> "sqlite3.Error"]
  ELSE LET kept == { r \in tbl : ~UniqueViolation({r}, data) }
       IN [photos |-> kept \cup {NewRow(seq, data)}, nextId |-> seq + 1,
           photo_count |-> PhotoCountOf(kept \cup {NewRow(seq, data)}),
           id |-> seq, raised |-> "none"]

\* add_photo that inserts the row but returns None for its id
add_photo_LostId(tbl, seq, cnt, data, dberr) ==
  IF dberr \/ UniqueViolation(tbl, data)
    THEN [photos |-> tbl, nextId |-> seq, photo_count |-> cnt, id |-> NoId,
          raised |-> "sqlite3.Error"]
  ELSE [photos |-> tbl \cup {NewRow(seq, data)}, nextId |-> seq + 1,
        photo_count |-> PhotoCountOf(tbl \cup {NewRow(seq, data)}),
        id |-> NoId, raised |-> "none"]

\* Database.add_photo: the new table, sequence and config value, the returned
\* id (NoId for None) and the exception the handler caught.  dberr: the INSERT
\* fails with an sqlite3.Error other than IntegrityError.
add_photo(tbl, seq, cnt, data, dberr) ==
  IF dberr
    THEN [photos |-> tbl, nextId |-> seq, photo_count |-> cnt, id |-> NoId,
          raised |-> "sqlite3.Error"]
  ELSE IF UniqueViolation(tbl, data)
    THEN [photos |-> tbl, nextId |-> seq, photo_count |-> cnt, id |-> NoId,
          raised |-> "sqlite3.IntegrityError"]
  ELSE [photos |-> tbl \cup {NewRow(seq, data)}, nextId |-> seq + 1,
        photo_count |-> PhotoCountOf(tbl \cup {NewRow(seq, data)}),
        id |-> seq, raised |-> "none"]

\* photo_exists with the test of is_deleted inverted
photo_exists_Deleted(tbl, md5, size, qerr) ==
  IF qerr THEN FALSE
  ELSE \E r \in tbl : r.md5 = md5 /\ r.size = size /\ r.is_deleted = 1

\* Database.photo_exists; qerr: the SELECT fails with sqlite3.Error, which the
\* handler turns into False
photo_exists(tbl, md5, size, qerr) ==
  IF qerr THEN FALSE
  ELSE \E r \in tbl : r.md5 = md5 /\ r.size = size /\ r.is_deleted = 0

\* SELECT SUM(size) over rows
RECURSIVE SumSize(_)
SumSize(rows) ==
  IF rows = {} THEN 0
  ELSE LET r == CHOOSE x \in rows : TRUE IN r.size + SumSize(rows \ {r})

\* SELECT type, COUNT(*) ... GROUP BY type over rows, as a dict
CountByType(rows) ==
  [ty \in { r.type : r \in rows } |-> Cardinality({ r \in rows : r.type = ty })]

\* SELECT MAX(imported_at) over rows: the set holding it, empty for NULL
MaxImportedAt(rows) ==
  { r.imported_at : r \in { x \in rows : \A q \in rows : q.imported_at <= x.imported_at } }

\* get_library_stats whose SUM(size) lacks the WHERE clause
get_library_stats_AllRows(tbl) ==
  [photos_count |-> Cardinality(LiveRows(tbl)), total_size |-> SumSize(tbl),
   types_count |-> CountByType(LiveRows(tbl)),
   latest_import |-> MaxImportedAt(LiveRows(tbl))]

\* Database.get_library_stats: four queries, each WHERE is_deleted = 0
get_library_stats(tbl) ==
  [photos_count |-> Cardinality(LiveRows(tbl)), total_size |-> SumSize(LiveRows(tbl)),
   types_count |-> CountByType(LiveRows(tbl)),
   latest_import |-> MaxImportedAt(LiveRows(tbl))]

(* ------------------ catalog: db/database_manager.py -------------------- *)

\* json.dumps: the JSON document of a Python value.  A JSON document is
\* written as its syntax tree: string, number, array, object.  Tuples and
\* lists are both written as arrays.
RECURSIVE json_dumps(_)
json_dumps(x) ==
  CASE x[1] = "str" -> <<"string", x[2]>>
    [] x[1] = "int" -> <<"number", x[2]>>
    [] x[1] \in {"tuple", "list"} ->
         <<"array", [k \in 1..Len(x[2]) |-> json_dumps(x[2][k])]>>
    [] x[1] = "dict" ->
         <<"object", [k \in 1..Len(x[2]) |-> <<x[2][k][1], json_dumps(x[2][k][2])>>]>>

\* json.loads: the Python value of a JSON document; an array becomes a list
RECURSIVE json_loads(_)
json_loads(j) ==
  CASE j[1] = "string" -> PyStr(j[2])
    [] j[1] = "number" -> PyInt(j[2])
    [] j[1] = "array" -> PyList([k \in 1..Len(j[2]) |-> json_loads(j[2][k])])
    [] j[1] = "object" ->
         PyDict([k \in 1..Len(j[2]) |-> <<j[2][k][1], json_loads(j[2][k][2])>>])

\* json.dumps(exif_data) without the test of exif_data: None is stored as the
\* document null
ExifJson_NoGuard(exif_data) ==
  IF exif_data = Null THEN <<"null">> ELSE json_dumps(exif_data)

\* json.dumps(exif_data) if exif_data else None
ExifJson(exif_data) == IF Truthy(exif_data) THEN json_dumps(exif_data) ELSE Null

\* the photo_data dict DatabaseManager.add_photo_record builds
PhotoData(filename, relative_path, md5, size, created_at, photo_type, exif_data, t) ==
  [filename |-> filename, path |-> relative_path, md5 |-> md5, size |-> size,
   created_at |-> created_at, imported_at |-> t, type |-> photo_type,
   exif_json |-> ExifJson(exif_data), thumbnail_path |-> ""]

\* the columns of CREATE TABLE photos
PhotoColumns ==
  {"id", "filename", "path", "md5", "size", "created_at", "imported_at", "type",
   "exif_json", "thumbnail_path", "is_deleted"}

\* DatabaseManager.update_photo_thumbnail: UPDATE photos SET thumbnail_path = ?,
\* updated_at = ? WHERE id = ?.  A SET clause naming a column the table lacks
\* raises sqlite3.OperationalError, which the handler turns into False; an
\* UPDATE that runs returns True whether or not it matched a row
update_photo_thumbnail(tbl, photo_id, thumbnail_path) ==
  IF {"thumbnail_path", "updated_at"} \subseteq PhotoColumns
    THEN [photos |-> { IF r.id = photo_id THEN [r EXCEPT !.thumbnail_path = thumbnail_path]
                       ELSE r : r \in tbl },
          ok |-> TRUE, raised |-> "none"]
    ELSE [photos |-> tbl, ok |-> FALSE, raised |-> "sqlite3.OperationalError"]

\* DatabaseManager.delete_photo_record: UPDATE photos SET is_deleted = 1,
\* updated_at = ? WHERE id = ?
delete_photo_record(tbl, photo_id) ==
  IF {"is_deleted", "updated_at"} \subseteq PhotoColumns
    THEN [photos |-> { IF r.id = photo_id THEN [r EXCEPT !.is_deleted = 1] ELSE r : r \in tbl },
          ok |-> TRUE, raised |-> "none"]
    ELSE [photos |-> tbl, ok |-> FALSE, raised |-> "sqlite3.OperationalError"]

\* DatabaseManager.get_all_photos: the columns selected from the rows with
\* is_deleted = 0 (as a set: the ORDER BY created_at DESC is left out)
get_all_photos(tbl) ==
  { [id |-> r.id, filename |-> r.filename, md5 |-> r.md5, size |-> r.size,
     created_at |-> r.created_at, relative_path |-> r.path, photo_type |-> r.type] :
    r \in LiveRows(tbl) }

(* --------------------- catalog: db/photo_dao.py ------------------------ *)

UpdKeys(updates) == { kv[1] : kv \in updates }
UpdVal(updates, k) == (CHOOSE kv \in updates : kv[1] = k)[2]

\* the columns update_photo puts into its SET clause
SetColumns(updates) ==
  UpdKeys(updates) \cap {"filename", "path", "thumbnail_path", "type", "exif_data"}

\* the row after UPDATE photos SET ... for the keys update_photo accepts
UpdatedRow(r, updates) ==
  [r EXCEPT
    !.filename = IF "filename" \in UpdKeys(updates) THEN UpdVal(updates, "filename") ELSE @,
    !.path = IF "path" \in UpdKeys(updates) THEN UpdVal(updates, "path") ELSE @,
    !.thumbnail_path = IF "thumbnail_path" \in UpdKeys(updates)
                         THEN UpdVal(updates, "thumbnail_path") ELSE @,
    !.type = IF "type" \in UpdKeys(updates) THEN UpdVal(updates, "type") ELSE @,
    !.exif_json = IF "exif_data" \in UpdKeys(updates)
                    THEN ExifJson(UpdVal(updates, "exif_data")) ELSE @]

\* update_photo whose SET clause takes every key of the dict, md5 included
update_photo_AnyColumn(tbl, photo_id, updates) ==
  IF updates = {}
    THEN [photos |-> tbl, ok |-> TRUE]
  ELSE LET hit == { r \in tbl : r.id = photo_id }
           new == { [UpdatedRow(r, updates) EXCEPT
                       !.md5 = IF "md5" \in UpdKeys(updates)
                                 THEN UpdVal(updates, "md5") ELSE @] : r \in hit }
       IN IF \E n \in new : UniqueViolation(tbl \ hit, n)
            THEN [photos |-> tbl, ok |-> FALSE]
            ELSE [photos |-> (tbl \ hit) \cup new, ok |-> hit # {}]

\* PhotoDAO.update_photo: the new table and the returned bool
update_photo(tbl, photo_id, updates) ==
  IF updates = {} \/ SetColumns(updates) = {}
    THEN [photos |-> tbl, ok |-> TRUE]
  ELSE LET hit == { r \in tbl : r.id = photo_id }
           new == { UpdatedRow(r, updates) : r \in hit }
       IN IF \E n \in new : UniqueViolation(tbl \ hit, n)
            THEN [photos |-> tbl, ok |-> FALSE]
            ELSE [photos |-> (tbl \ hit) \cup new, ok |-> hit # {}]

\* delete_photo whose soft branch leaves is_deleted as it is
delete_photo_NoFlag(tbl, photo_id, soft_delete) ==
  LET hit == { r \in tbl : r.id = photo_id }
  IN IF soft_delete
       THEN [photos |-> tbl, ok |-> hit # {}]
       ELSE [photos |-> tbl \ hit, ok |-> hit # {}]

\* PhotoDAO.delete_photo: the new table and the returned bool
delete_photo(tbl, photo_id, soft_delete) ==
  LET hit == { r \in tbl : r.id = photo_id }
  IN IF soft_delete
       THEN [photos |-> (tbl \ hit) \cup { [r EXCEPT !.is_deleted = 1] : r \in hit },
             ok |-> hit # {}]
       ELSE [photos |-> tbl \ hit, ok |-> hit # {}]

\* the rows ORDER BY imported_at DESC LIMIT n keeps
TopRecent(rows, n) ==
  { r \in rows : Cardinality({ q \in rows : q.imported_at > r.imported_at }) < n }

\* DATE(created_at) as the number yyyymmdd; dates given to the queries as
\* 'YYYY-MM-DD' are written the same way (their text order is this number
\* order) and 0 stands for None
SqlDate(created_at) ==
  CASE created_at = "2024-03-05T10:00:00" -> 20240305
    [] created_at = "2024-03-06T08:30:00" -> 20240306
    [] OTHER -> 0

\* filename LIKE pattern, for the pattern '%' and for patterns without a
\* wildcard
Like(filename, pattern) == pattern = "%" \/ filename = pattern

\* dict(row) with the key exif_data added: json.loads of a non-NULL exif_json,
\* {} otherwise
PhotoDict(r) ==
  [id |-> r.id, filename |-> r.filename, path |-> r.path, md5 |-> r.md5,
   size |-> r.size, created_at |-> r.created_at, imported_at |-> r.imported_at,
   type |-> r.type, exif_json |-> r.exif_json, thumbnail_path |-> r.thumbnail_path,
   is_deleted |-> r.is_deleted,
   exif_data |-> IF r.exif_json # Null THEN json_loads(r.exif_json) ELSE PyDict(<<>>)]

\* PhotoDAO.get_photo_by_id: fetchone of id = ? AND is_deleted = 0, as the
\* set of dicts returned (empty for None)
get_photo_by_id(tbl, photo_id) ==
  { PhotoDict(r) : r \in { x \in tbl : x.id = photo_id /\ x.is_deleted = 0 } }

\* PhotoDAO.get_photo_by_md5: fetchone of md5 = ? AND size = ? AND is_deleted = 0,
\* as the set of rows returned (empty for None)
get_photo_by_md5(tbl, md5, size) ==
  LET hit == { r \in tbl : r.md5 = md5 /\ r.size = size /\ r.is_deleted = 0 }
  IN IF hit = {} THEN {} ELSE { CHOOSE r \in hit : TRUE }

\* PhotoDAO.get_recent_photos
get_recent_photos(tbl, limit) == TopRecent(LiveRows(tbl), limit)

\* PhotoDAO.get_photos_by_date_range
get_photos_by_date_range(tbl, start_date, end_date) ==
  { r \in tbl : /\ SqlDate(r.created_at) >= start_date
                /\ SqlDate(r.created_at) <= end_date
                /\ r.is_deleted = 0 }

\* PhotoDAO.get_photos_by_type
get_photos_by_type(tbl, photo_type) ==
  { r \in tbl : r.type = photo_type /\ r.is_deleted = 0 }

\* PhotoDAO.get_photos_stats: count, size, type distribution and latest
\* import, each WHERE is_deleted = 0
get_photos_stats(tbl) ==
  [total_count |-> Cardinality(LiveRows(tbl)), total_size |-> SumSize(LiveRows(tbl)),
   type_distribution |-> CountByType(LiveRows(tbl)),
   latest_import |-> MaxImportedAt(LiveRows(tbl))]

(* --------------------- catalog: db/dao_manager.py ---------------------- *)

\* DAOManager.search_photos; "" and 0 stand for an argument left None
search_photos(tbl, filename_pattern, start_date, end_date, photo_type, md5, limit) ==
  IF md5 # ""
    THEN get_photo_by_md5(tbl, md5, 0)
  ELSE TopRecent(
         { r \in tbl :
             /\ r.is_deleted = 0
             /\ filename_pattern # "" => Like(r.filename, filename_pattern)
             /\ IF start_date # 0 /\ end_date # 0
                  THEN SqlDate(r.created_at) >= start_date /\ SqlDate(r.created_at) <= end_date
                ELSE IF start_date # 0 THEN SqlDate(r.created_at) >= start_date
                ELSE IF end_date # 0 THEN SqlDate(r.created_at) <= end_date
                ELSE TRUE
             /\ photo_type # "" => r.type = photo_type },
         limit)

(* ------------------ pure functions of photo_importer.py ---------------- *)

\* datetime.strptime(time_str, '%Y:%m:%d %H:%M:%S') on the texts the inputs
\* carry: the set holding the parsed time, empty when ValueError is raised
StrpTime(time_str) ==
  CASE time_str = "2024:03:05 10:00:00" -> {T0305}
    [] time_str = "2024:03:06 08:30:00" -> {T0306}
    [] time_str = "2023:01:01 09:00:00" -> {TOrig}
    [] time_str = "2023:02:02 09:00:00" -> {TDigi}
    [] time_str = "2023:03:03 09:00:00" -> {TModi}
    [] OTHER -> {}

\* the list time_tags of extract_photo_datetime
time_tags == <<"EXIF DateTimeOriginal", "EXIF CreateDate", "EXIF DateTime", "Image DateTime">>

\* tags[tag_name]; tag_name in tags is TagNames
TagNames(tags) == { kv[1] : kv \in tags }
TagText(tags, tag_name) == (CHOOSE kv \in tags : kv[1] = tag_name)[2]

\* the for loop of extract_photo_datetime from position k of the list on: the
\* first listed tag that is present and parses, else the modification time
RECURSIVE FirstParsed(_, _, _)
FirstParsed(tags, list, k) ==
  IF k > Len(list) THEN {}
  ELSE IF list[k] \in TagNames(tags) /\ StrpTime(TagText(tags, list[k])) # {}
    THEN StrpTime(TagText(tags, list[k]))
  ELSE FirstParsed(tags, list, k + 1)

\* extract_photo_datetime of a readable file.  exifread.process_file reports
\* the tags of the file; stop_tag can only cut the scan short after
\* DateTimeOriginal, the first tag of the list, was read.
extract_photo_datetime(f) ==
  LET found == FirstParsed(f.tags, time_tags, 1)
  IN IF found # {} THEN CHOOSE tm \in found : TRUE ELSE f.mtime

\* photo_time.isoformat()
IsoFormat(tm) == tm.Y \o "-" \o tm.m \o "-" \o tm.d \o "T" \o tm.t

\* the date directory placed under a photos directory of the root
DateDir_Photos(tm) == "photos/" \o tm.Y \o "/" \o tm.m \o "/" \o tm.d

\* generate_target_path: os.path.join(target_dir, year, month, day)
DateDir(tm) == tm.Y \o "/" \o tm.m \o "/" \o tm.d

\* the directories os.makedirs(date_dir, exist_ok=True) leaves present
MakeDirs(dirs, tm) ==
  dirs \cup { tm.Y, tm.Y \o "/" \o tm.m, tm.Y \o "/" \o tm.m \o "/" \o tm.d }

\* generate_target_path: the target path, split as dirname, splitext(basename)
generate_target_path(f, tm) == [dir |-> DateDir(tm), name |-> f.name, ext |-> f.ext]

\* os.path.basename and the path relative to the library root
BaseName(p) == p.name \o p.ext
PathStr(p) == p.dir \o "/" \o BaseName(p)

\* the while loop of copy_file_with_conflict_resolution, from counter on
RECURSIVE NextFree(_, _, _)
NextFree(existing, target, counter) ==
  LET new_target == [target EXCEPT !.name = target.name \o "_" \o ToString(counter)]
  IN IF PathStr(new_target) \notin existing
       THEN new_target
       ELSE NextFree(existing, target, counter + 1)

\* copy_file_with_conflict_resolution without the test of os.path.exists
copy_file_with_conflict_resolution_Overwrite(existing, target) == target

\* copy_file_with_conflict_resolution whose counter starts at 0
copy_file_with_conflict_resolution_FromZero(existing, target) ==
  IF PathStr(target) \notin existing THEN target ELSE NextFree(existing, target, 0)

\* copy_file_with_conflict_resolution: the path the file is copied to
copy_file_with_conflict_resolution(existing, target) ==
  IF PathStr(target) \notin existing THEN target ELSE NextFree(existing, target, 1)

\* os.path.splitext(filename)[1].lower().lstrip('.')
FileExt(ext) ==
  CASE ext = ".jpg" -> "jpg"
    [] ext = ".JPG" -> "jpg"
    [] ext = ".PNG" -> "png"
    [] ext = ".png" -> "png"
    [] OTHER -> ext

\* extract_exif_data keeps a value that is a str, an int or a float, or a
\* tuple of length 2
ExifKept(x) == x[1] \in {"str", "int", "float"} \/ (x[1] = "tuple" /\ Len(x[2]) = 2)

\* the value stored under the tag: a 2-tuple as the text f"{value[0]}/{value[1]}"
ExifReadable(x) ==
  IF x[1] = "tuple"
    THEN PyStr(ToString(x[2][1][2]) \o "/" \o ToString(x[2][2][2]))
    ELSE x

\* extract_exif_data: the readable mapping of the values kept, Null for None:
\* the file has no EXIF, or (raises) Image.open or _getexif raised and the
\* except clause of the function swallowed it
extract_exif_data(f, raises) ==
  IF raises \/ f.exif = Null THEN Null
  ELSE LET kept == SelectSeq(f.exif[2], LAMBDA kv : ExifKept(kv[2]))
       IN PyDict([k \in 1..Len(kept) |-> <<kept[k][1], ExifReadable(kept[k][2])>>])

(* ---------------- PhotoImportWorker of photo_importer.py --------------- *)

NoTime == [Y |-> "", m |-> "", d |-> "", t |-> ""]
\* the locals of _import_single_photo before the file is fingerprinted; dup,
\* fault and snap are bookkeeping: whether a live row held the content when
\* the file was examined, the failure injected so far, and the catalog and
\* library as they were when the iteration began
NoCur ==
  [md5 |-> "", size |-> 0, time |-> NoTime, filename |-> "", relative_path |-> "",
   dup |-> FALSE, fault |-> "none", snap |-> <<>>]

\* the texts of the signals: the two fixed ones and str(e) of each exception
MsgExists == "exists (MD5+size)"
MsgDbWrite == "database write failed"
ExcMsg(fault) ==
  CASE fault = "read" -> "IOError: read"
    [] fault = "cursor" -> "AttributeError: NoneType.execute"
    [] fault = "makedirs" -> "OSError: makedirs"
    [] fault = "copy" -> "OSError: copy"
    [] fault = "copy_partial" -> "OSError: copy"
    [] OTHER -> fault

\* progress_updated emitting the 0-based enumerate index
progress_updated_ZeroBased(n, total, path) ==
  [sig |-> "progress_updated", path |-> path, text |-> "", nums |-> <<n - 1, total>>]

\* the signals of PhotoImportWorker
progress_updated(n, total, path) ==
  [sig |-> "progress_updated", path |-> path, text |-> "", nums |-> <<n, total>>]
photo_imported(path, final) ==
  [sig |-> "photo_imported", path |-> path, text |-> final, nums |-> <<>>]
photo_skipped(path, reason) ==
  [sig |-> "photo_skipped", path |-> path, text |-> reason, nums |-> <<>>]
error_occurred(path, msg) ==
  [sig |-> "error_occurred", path |-> path, text |-> msg, nums |-> <<>>]
import_completed(success, skipped, errors) ==
  [sig |-> "import_completed", path |-> "", text |-> "", nums |-> <<success, skipped, errors>>]

\* run without its else branch: an "error" result is not counted
Tally_NoElse(c, result) ==
  IF result = "success" THEN [c EXCEPT !.success = @ + 1]
  ELSE IF result = "skipped" THEN [c EXCEPT !.skip = @ + 1]
  ELSE c

\* run: the counter the result of _import_single_photo increments
Tally(c, result) ==
  IF result = "success" THEN [c EXCEPT !.success = @ + 1]
  ELSE IF result = "skipped" THEN [c EXCEPT !.skip = @ + 1]
  ELSE [c EXCEPT !.error = @ + 1]

\* the loop without the test of is_cancelled
LoopContinues_NoCancel(list, idx, cancelled) == idx < Len(list)

\* run: the loop goes on to files[idx] (0-based) unless the list is exhausted
\* or is_cancelled is seen at the top of the iteration
LoopContinues(list, idx, cancelled) == idx < Len(list) /\ ~cancelled

\* whether a non-deleted row holds the content of f
LiveContent(tbl, f) == \E r \in tbl : r.is_deleted = 0 /\ r.md5 = f.md5 /\ r.size = f.size

\* what hist records for one file: the file, whether the worker had a cursor,
\* the bookkeeping of cur, the path the file was copied to (if it was), the
\* id and exception of the insert (if one ran), the result and signal text
HistEntry(f, c, fault, copied, id, raised, result, msg) ==
  [file |-> f, conn |-> connected, dup |-> c.dup, fault |-> fault, copied |-> copied,
   id |-> id, raised |-> raised, result |-> result, msg |-> msg, snap |-> c.snap]

\* an "error" result that leaves the loop of run instead of continuing it
FileDone_Abort(result, ev, h) ==
  /\ events' = Append(events, ev)
  /\ counts' = Tally(counts, result)
  /\ hist' = Append(hist, h)
  /\ i' = i + 1
  /\ cur' = NoCur
  /\ pc' = IF result = "error" THEN "emit" ELSE "loop"

\* _import_single_photo returns result after emitting ev; run counts it and
\* moves to the next iteration
FileDone(result, ev, h) ==
  /\ events' = Append(events, ev)
  /\ counts' = Tally(counts, result)
  /\ hist' = Append(hist, h)
  /\ i' = i + 1
  /\ cur' = NoCur
  /\ pc' = "loop"

\* the except clause of _import_single_photo for exception fault
Failed(f, c, fault, copied) ==
  FileDone("error", error_occurred(f.src, ExcMsg(fault)),
           HistEntry(f, c, fault, copied, NoId, "none", "error", ExcMsg(fault)))

\* PhotoImportWorker.__init__ and start(); __enter__ connects (conn: whether
\* sqlite3.connect succeeded)
WorkerStart(list, conn) ==
  /\ pc \in {"idle", "done"}
  /\ batches < MaxBatches
  /\ batches' = batches + 1
  /\ files' = list
  /\ is_cancelled' = FALSE
  /\ cancel_seen' = 0
  /\ connected' = conn
  /\ i' = 0
  /\ counts' = [success |-> 0, skip |-> 0, error |-> 0]
  /\ cur' = NoCur
  /\ events' = <<>>
  /\ hist' = <<>>
  /\ pc' = "loop"
  /\ Inject(~conn)

\* a batch started without a dialog
StartBatch(list, conn) ==
  /\ WorkerStart(list, conn)
  /\ UNCHANGED <<dbvars, fsvars, daovars>>

Running == {"loop", "check", "copy", "persist", "emit"}

\* PhotoImportWorker.cancel, called from another thread while the worker runs
Cancel ==
  /\ pc \in Running
  /\ ~is_cancelled
  /\ is_cancelled' = TRUE
  /\ cancel_seen' = Len(SelectSeq(events, LAMBDA e : e.sig = "progress_updated"))
  /\ UNCHANGED <<dbvars, fsvars, daovars, files, connected, pc, i, counts, cur,
                 events, hist, batches, faults>>

\* run: top of one iteration; leaving the loop leaves the with block (close)
LoopTop ==
  /\ pc = "loop"
  /\ IF LoopContinues(files, i, is_cancelled)
       THEN /\ events' = Append(events, progress_updated(i + 1, Len(files), files[i + 1].src))
            /\ cur' = [NoCur EXCEPT !.snap = <<photos, libDirs, libFiles, libPartial>>]
            /\ pc' = "check"
            /\ UNCHANGED connected
       ELSE /\ pc' = "emit"
            /\ connected' = FALSE
            /\ UNCHANGED <<events, cur>>
  /\ UNCHANGED <<dbvars, fsvars, daovars, files, is_cancelled, cancel_seen, i, counts,
                 hist, batches, faults>>

\* steps 1-2 with the date directory planned before the duplicate check
CheckDup_PlanFirst(rerr, qerr) ==
  /\ pc = "check"
  /\ ~(rerr /\ qerr)
  /\ Inject(rerr \/ qerr)
  /\ LET f == files[i + 1]
         c == [cur EXCEPT !.dup = LiveContent(photos, f),
                          !.fault = IF qerr /\ connected THEN "query" ELSE "none"]
     IN IF rerr
          THEN Failed(f, c, "read", "") /\ UNCHANGED fsvars
        ELSE IF ~connected
          THEN Failed(f, c, "cursor", "") /\ UNCHANGED fsvars
        ELSE /\ libDirs' = MakeDirs(libDirs, extract_photo_datetime(f))
             /\ UNCHANGED <<libFiles, libPartial>>
             /\ IF photo_exists(photos, f.md5, f.size, qerr)
                  THEN FileDone("skipped", photo_skipped(f.src, MsgExists),
                                HistEntry(f, c, c.fault, "", NoId, "none", "skipped",
                                          MsgExists))
                  ELSE /\ cur' = [c EXCEPT !.md5 = f.md5, !.size = f.size]
                       /\ pc' = "copy"
                       /\ UNCHANGED <<events, counts, hist, i>>
  /\ UNCHANGED <<dbvars, daovars, files, is_cancelled, cancel_seen, connected, batches>>

\* _import_single_photo steps 1-2: calculate_file_md5 and photo_exists_by_hash.
\* rerr: reading the file raises; qerr: the SELECT raises sqlite3.Error.
\* Without a cursor photo_exists raises AttributeError.
CheckDup(rerr, qerr) ==
  /\ pc = "check"
  /\ ~(rerr /\ qerr)
  /\ Inject(rerr \/ qerr)
  /\ LET f == files[i + 1]
         c == [cur EXCEPT !.dup = LiveContent(photos, f),
                          !.fault = IF qerr /\ connected THEN "query" ELSE "none"]
     IN IF rerr
          THEN Failed(f, c, "read", "")
        ELSE IF ~connected
          THEN Failed(f, c, "cursor", "")
        ELSE IF photo_exists(photos, f.md5, f.size, qerr)
          THEN FileDone("skipped", photo_skipped(f.src, MsgExists),
                        HistEntry(f, c, c.fault, "", NoId, "none", "skipped", MsgExists))
        ELSE /\ cur' = [c EXCEPT !.md5 = f.md5, !.size = f.size]
             /\ pc' = "copy"
             /\ UNCHANGED <<events, counts, hist, i>>
  /\ UNCHANGED <<dbvars, fsvars, daovars, files, is_cancelled, cancel_seen, connected,
                 batches>>

CopyFaults == {"none", "makedirs", "copy", "copy_partial"}

\* a copy whose failure is swallowed instead of raised
CopyRaises_Swallow(fault) == fault = "makedirs"

\* steps 3-6 have no handler of their own: a failure of makedirs or of
\* shutil.copy2 propagates to the except clause of _import_single_photo
CopyRaises(fault) == fault # "none"

\* _import_single_photo steps 3-6: extract_photo_datetime, generate_target_path
\* (makedirs), copy_file_with_conflict_resolution, relpath.  fault: which call
\* fails; copy_partial: shutil.copy2 fails after it created the target.
CopyFile(fault) ==
  /\ pc = "copy"
  /\ Inject(fault # "none")
  /\ LET f == files[i + 1]
         photo_time == extract_photo_datetime(f)
         target_path == generate_target_path(f, photo_time)
         final_path == copy_file_with_conflict_resolution(libFiles, target_path)
     IN /\ libDirs' = IF fault = "makedirs" THEN libDirs ELSE MakeDirs(libDirs, photo_time)
        /\ libFiles' = IF fault \in {"makedirs", "copy"}
                         THEN libFiles ELSE libFiles \cup {PathStr(final_path)}
        /\ libPartial' = IF fault = "copy_partial"
                           THEN libPartial \cup {PathStr(final_path)} ELSE libPartial
        /\ IF CopyRaises(fault)
             THEN Failed(f, cur, fault, "")
             ELSE /\ cur' = [cur EXCEPT !.time = photo_time,
                                        !.filename = BaseName(final_path),
                                        !.relative_path = PathStr(final_path)]
                  /\ pc' = "persist"
                  /\ UNCHANGED <<events, counts, hist, i>>
  /\ UNCHANGED <<dbvars, daovars, files, is_cancelled, cancel_seen, connected, batches>>

\* _import_single_photo steps 7-8: extract_exif_data, add_photo_record and the
\* signal for its result.  dberr: the INSERT raises another sqlite3.Error;
\* xerr: reading the metadata fails inside extract_exif_data.
Persist(dberr, xerr) ==
  /\ pc = "persist"
  /\ ~(dberr /\ xerr)
  /\ Inject(dberr \/ xerr)
  /\ LET f == files[i + 1]
         exif_data == extract_exif_data(f, xerr)
         file_ext == FileExt(f.ext)
         data == PhotoData(cur.filename, cur.relative_path, cur.md5, cur.size,
                           IsoFormat(cur.time), file_ext, exif_data, now)
         r == add_photo(photos, nextId, photo_count, data, dberr)
         fault == IF dberr THEN "insert" ELSE IF xerr THEN "exif" ELSE cur.fault
     IN /\ photos' = r.photos
        /\ nextId' = r.nextId
        /\ photo_count' = r.photo_count
        /\ now' = now + 1
        /\ IF r.id # NoId
             THEN FileDone("success", photo_imported(f.src, cur.relative_path),
                           HistEntry(f, cur, fault, cur.relative_path, r.id, r.raised,
                                     "success", cur.relative_path))
             ELSE FileDone("error", error_occurred(f.src, MsgDbWrite),
                           HistEntry(f, cur, fault, cur.relative_path, r.id, r.raised,
                                     "error", MsgDbWrite))
  /\ UNCHANGED <<fsvars, daovars, files, is_cancelled, cancel_seen, connected, batches>>

\* import_completed emitted inside the loop's exit path and again after it
Complete_Twice ==
  /\ pc = "emit"
  /\ events' = events \o << import_completed(counts.success, counts.skip, counts.error),
                           import_completed(counts.success, counts.skip, counts.error) >>
  /\ pc' = "done"
  /\ UNCHANGED <<dbvars, fsvars, daovars, files, is_cancelled, cancel_seen, connected,
                 i, counts, cur, hist, batches, faults>>

\* run: import_completed.emit after the with block
Complete ==
  /\ pc = "emit"
  /\ events' = Append(events, import_completed(counts.success, counts.skip, counts.error))
  /\ pc' = "done"
  /\ UNCHANGED <<dbvars, fsvars, daovars, files, is_cancelled, cancel_seen, connected,
                 i, counts, cur, hist, batches, faults>>

(* ----------------- direct catalog operations (PhotoDAO) ---------------- *)

DaoIdle == pc \in {"idle", "done"} /\ daoOps < MaxDaoOps

\* PhotoDAO.insert_photo
DaoInsert(d, dberr) ==
  /\ DaoIdle
  /\ LET data == PhotoData(d.filename, d.path, d.md5, d.size, "2024-03-05T10:00:00",
                           "jpg", d.exif_data, now)
         r == add_photo(photos, nextId, photo_count, data, dberr)
     IN /\ photos' = r.photos
        /\ nextId' = r.nextId
        /\ photo_count' = r.photo_count
        /\ last_dao' = [op |-> "insert", id |-> r.id, ok |-> r.id # NoId,
                        raised |-> r.raised]
  /\ now' = now + 1
  /\ daoOps' = daoOps + 1
  /\ Inject(dberr)
  /\ UNCHANGED <<fsvars, wvars>>

\* PhotoDAO.update_photo
DaoUpdate(photo_id, updates) ==
  /\ DaoIdle
  /\ LET r == update_photo(photos, photo_id, updates)
     IN /\ photos' = r.photos
        /\ last_dao' = [op |-> "update", id |-> photo_id, ok |-> r.ok, raised |-> "none"]
  /\ daoOps' = daoOps + 1
  /\ UNCHANGED <<nextId, photo_count, now, fsvars, wvars, faults>>

\* PhotoDAO.delete_photo
DaoDelete(photo_id, soft_delete) ==
  /\ DaoIdle
  /\ LET r == delete_photo(photos, photo_id, soft_delete)
     IN /\ photos' = r.photos
        /\ last_dao' = [op |-> IF soft_delete THEN "soft_delete" ELSE "hard_delete",
                        id |-> photo_id, ok |-> r.ok, raised |-> "none"]
  /\ daoOps' = daoOps + 1
  /\ UNCHANGED <<nextId, photo_count, now, fsvars, wvars, faults>>

(* -------------- direct catalog operations (DatabaseManager) ----------- *)

\* thumbnail paths handed to update_photo_thumbnail
ThumbnailPaths == {"thumbs/1.png"}

\* DatabaseManager.update_photo_thumbnail
DmUpdateThumbnail(photo_id, thumbnail_path) ==
  /\ DaoIdle
  /\ LET r == update_photo_thumbnail(photos, photo_id, thumbnail_path)
     IN /\ photos' = r.photos
        /\ last_dao' = [op |-> "update_photo_thumbnail", id |-> photo_id, ok |-> r.ok,
                        raised |-> r.raised]
  /\ now' = now + 1
  /\ daoOps' = daoOps + 1
  /\ UNCHANGED <<nextId, photo_count, fsvars, wvars, faults>>

\* DatabaseManager.delete_photo_record
DmDeleteRecord(photo_id) ==
  /\ DaoIdle
  /\ LET r == delete_photo_record(photos, photo_id)
     IN /\ photos' = r.photos
        /\ last_dao' = [op |-> "delete_photo_record", id |-> photo_id, ok |-> r.ok,
                        raised |-> r.raised]
  /\ now' = now + 1
  /\ daoOps' = daoOps + 1
  /\ UNCHANGED <<nextId, photo_count, fsvars, wvars, faults>>

(* --------------- the progress dialog of the main window ---------------- *)

NoClick == 0 - 1

\* no dialog yet.  import_worker and worker: whether the attribute refers to
\* the worker (FALSE for None or absent); clicked: the number of progress
\* signals emitted when the cancel button was first clicked on a running
\* worker
NoDialog ==
  [shown |-> FALSE, import_worker |-> FALSE, worker |-> FALSE,
   cancel_enabled |-> FALSE, clicked |-> NoClick]

\* MainWindow._start_import: ImportProgressDialog(self) (import_worker = None),
\* show(), then import_photos_with_progress: creates and starts the worker and
\* stores it in progress_dialog.worker
UiStartImport(list, conn) ==
  /\ WorkerStart(list, conn)
  /\ dialog' = [shown |-> TRUE, import_worker |-> FALSE, worker |-> TRUE,
                cancel_enabled |-> TRUE, clicked |-> NoClick]
  /\ UNCHANGED <<dbvars, fsvars, last_dao, daoOps, other>>

\* ImportProgressDialog.cancel_import, the slot of the cancel button
DialogCancel ==
  /\ dialog.shown /\ dialog.cancel_enabled
  /\ IF dialog.import_worker /\ pc \in Running
       THEN /\ is_cancelled' = TRUE
            /\ cancel_seen' = IF is_cancelled THEN cancel_seen ELSE Len(ProgressEventsOf(events))
            /\ dialog' = [dialog EXCEPT
                            !.cancel_enabled = FALSE,
                            !.clicked = IF pc \in Running /\ @ = NoClick
                                          THEN Len(ProgressEventsOf(events)) ELSE @]
       ELSE /\ dialog' = [dialog EXCEPT
                            !.clicked = IF pc \in Running /\ @ = NoClick
                                          THEN Len(ProgressEventsOf(events)) ELSE @]
            /\ UNCHANGED <<is_cancelled, cancel_seen>>
  /\ UNCHANGED <<dbvars, fsvars, last_dao, daoOps, other, files, connected, pc, i,
                 counts, cur, events, hist, batches, faults>>

\* ImportProgressDialog.import_finished, the slot of import_completed:
\* on_import_completed disables the cancel button
DialogImportFinished ==
  /\ pc = "done" /\ dialog.shown /\ dialog.cancel_enabled
  /\ dialog' = [dialog EXCEPT !.cancel_enabled = FALSE]
  /\ UNCHANGED <<dbvars, fsvars, last_dao, daoOps, other, wvarsOfWorker, faults>>

(* ------------------ a second worker on the same library --------------- *)

\* no second worker
NoOther ==
  [pc |-> "off", file |-> Null, time |-> NoTime, filename |-> "", relative_path |-> "",
   id |-> NoId, raised |-> "none", result |-> ""]

\* the second worker's _import_single_photo, steps 1-2, over its own connection
OtherCheck ==
  /\ other.pc = "check"
  /\ other' = IF photo_exists(photos, other.file.md5, other.file.size, FALSE)
                THEN [other EXCEPT !.pc = "done", !.result = "skipped"]
                ELSE [other EXCEPT !.pc = "copy"]
  /\ UNCHANGED <<dbvars, fsvars, last_dao, daoOps, dialog, files, is_cancelled, cancel_seen,
                 connected, pc, i, counts, cur, events, hist, batches, faults>>

\* the second worker's steps 3-6.  os.path.exists and shutil.copy2 are two
\* calls: with stale the first worker's copy of the current file lands between
\* them, so the path is chosen as if that copy were not there yet
OtherCopy(stale) ==
  /\ other.pc = "copy"
  /\ LET f == other.file
         photo_time == extract_photo_datetime(f)
         target_path == generate_target_path(f, photo_time)
         existing == IF stale THEN libFiles \ {cur.relative_path} ELSE libFiles
         final_path == copy_file_with_conflict_resolution(existing, target_path)
     IN /\ libDirs' = MakeDirs(libDirs, photo_time)
        /\ libFiles' = libFiles \cup {PathStr(final_path)}
        /\ other' = [other EXCEPT !.pc = "persist", !.time = photo_time,
                                  !.filename = BaseName(final_path),
                                  !.relative_path = PathStr(final_path)]
  /\ UNCHANGED <<dbvars, libPartial, last_dao, daoOps, dialog, files, is_cancelled, cancel_seen,
                 connected, pc, i, counts, cur, events, hist, batches, faults>>

\* the second worker's steps 7-8.  dberr: its INSERT raises another
\* sqlite3.Error (such as "database is locked")
OtherPersist(dberr) ==
  /\ other.pc = "persist"
  /\ Inject(dberr)
  /\ LET f == other.file
         data == PhotoData(other.filename, other.relative_path, f.md5, f.size,
                           IsoFormat(other.time), FileExt(f.ext), extract_exif_data(f, FALSE), now)
         r == add_photo(photos, nextId, photo_count, data, dberr)
     IN /\ photos' = r.photos
        /\ nextId' = r.nextId
        /\ photo_count' = r.photo_count
        /\ now' = now + 1
        /\ other' = [other EXCEPT !.pc = "done", !.id = r.id, !.raised = r.raised,
                                  !.result = IF r.id # NoId THEN "success" ELSE "error"]
  /\ UNCHANGED <<fsvars, last_dao, daoOps, dialog, files, is_cancelled, cancel_seen, connected,
                 pc, i, counts, cur, events, hist, batches>>

(* --------------------------- specification ---------------------------- *)

\* a database created by Database.initialize, an empty library, no worker
Init ==
  /\ photos = {}
  /\ nextId = 1
  /\ photo_count = "0"
  /\ now = 0
  /\ last_dao = [op |-> "none", id |-> NoId, ok |-> FALSE, raised |-> "none"]
  /\ daoOps = 0
  /\ libDirs = {}
  /\ libFiles = {}
  /\ libPartial = {}
  /\ files = <<>>
  /\ is_cancelled = FALSE
  /\ cancel_seen = 0
  /\ connected = FALSE
  /\ pc = "idle"
  /\ i = 0
  /\ counts = [success |-> 0, skip |-> 0, error |-> 0]
  /\ cur = NoCur
  /\ events = <<>>
  /\ hist = <<>>
  /\ batches = 0
  /\ faults = 0
  /\ other = NoOther
  /\ dialog = NoDialog

Next ==
  \/ \E list \in FileLists(MaxFiles), conn \in BOOLEAN : StartBatch(list, conn)
  \/ Cancel
  \/ LoopTop
  \/ \E rerr \in BOOLEAN, qerr \in BOOLEAN : CheckDup(rerr, qerr)
  \/ \E fault \in CopyFaults : CopyFile(fault)
  \/ \E dberr \in BOOLEAN, xerr \in BOOLEAN : Persist(dberr, xerr)
  \/ Complete
  \/ \E d \in DaoInserts, dberr \in BOOLEAN : DaoInsert(d, dberr)
  \/ \E id \in 1..(nextId - 1), u \in DaoUpdates : DaoUpdate(id, u)
  \/ \E id \in 1..(nextId - 1), soft \in BOOLEAN : DaoDelete(id, soft)
  \/ \E id \in 1..(nextId - 1), t \in ThumbnailPaths : DmUpdateThumbnail(id, t)
  \/ \E id \in 1..(nextId - 1) : DmDeleteRecord(id)

Spec == Init /\ [][Next]_vars

(* ------------------ a batch started from the main window -------------- *)

NextUi ==
  \/ \E list \in FileLists(MaxFiles), conn \in BOOLEAN : UiStartImport(list, conn)
  \/ DialogCancel
  \/ DialogImportFinished
  \/ LoopTop
  \/ \E rerr \in BOOLEAN, qerr \in BOOLEAN : CheckDup(rerr, qerr)
  \/ \E fault \in CopyFaults : CopyFile(fault)
  \/ \E dberr \in BOOLEAN, xerr \in BOOLEAN : Persist(dberr, xerr)
  \/ Complete

SpecUi == Init /\ [][NextUi]_vars

(* ------------- planning and copying one file: all inputs -------------- *)

\* what a date tag of an input file can be: absent (""), text that does not
\* parse, or the text of the time named after the tag
TagChoices(parsable) == {"", "0000:00:00 00:00:00", parsable}

\* the dict exifread reports for a choice of the three date tags
TagDict(orig, digi, modi) ==
  { kv \in { <<"EXIF DateTimeOriginal", orig>>, <<"EXIF DateTimeDigitized", digi>>,
             <<"Image DateTime", modi>> } : kv[2] # "" }

\* one file a.jpg for every combination of its date tags
PlanFiles ==
  { [src |-> "in/a.jpg", name |-> "a", ext |-> ".jpg", md5 |-> "h1", size |-> 10,
     mtime |-> T0305, tags |-> TagDict(orig, digi, modi), exif |-> Null] :
      orig \in TagChoices("2023:01:01 09:00:00"),
      digi \in TagChoices("2023:02:02 09:00:00"),
      modi \in TagChoices("2023:03:03 09:00:00") }

\* the names a date directory may hold: a.jpg and a_1.jpg .. a_MaxSuffix.jpg
PlanNames == {"a.jpg"} \cup { "a_" \o ToString(n) \o ".jpg" : n \in 1..MaxSuffix }
PlanTimes == {TOrig, TDigi, TModi, T0305}

\* a library in which every date directory a file can be planned into holds
\* the files named names
PlanLibrary(names) == { DateDir(tm) \o "/" \o n : tm \in PlanTimes, n \in names }

\* a worker over an empty catalog that has found its only file to be new and
\* is about to plan and copy it, for every file of PlanFiles and every set of
\* names present in the date directories
InitPlan ==
  /\ photos = {}
  /\ nextId = 1
  /\ photo_count = "0"
  /\ now = 0
  /\ last_dao = [op |-> "none", id |-> NoId, ok |-> FALSE, raised |-> "none"]
  /\ daoOps = 0
  /\ \E names \in SUBSET PlanNames :
       /\ libFiles = PlanLibrary(names)
       /\ libDirs = IF names = {} THEN {} ELSE UNION { MakeDirs({}, tm) : tm \in PlanTimes }
  /\ libPartial = {}
  /\ \E f \in PlanFiles :
       /\ files = <<f>>
       /\ events = << progress_updated(1, 1, f.src) >>
       /\ cur = [NoCur EXCEPT !.md5 = f.md5, !.size = f.size,
                              !.snap = <<photos, libDirs, libFiles, libPartial>>]
  /\ is_cancelled = FALSE
  /\ cancel_seen = 0
  /\ connected = TRUE
  /\ pc = "copy"
  /\ i = 0
  /\ counts = [success |-> 0, skip |-> 0, error |-> 0]
  /\ hist = <<>>
  /\ batches = 1
  /\ faults = 0
  /\ other = NoOther
  /\ dialog = NoDialog

NextPlan == \E fault \in CopyFaults : CopyFile(fault)

SpecPlan == InitPlan /\ [][NextPlan]_vars

(* --------------- two workers, one file each, one library -------------- *)

\* two workers started on the same empty library with one file each, both
\* about to examine their file, for every pair of source files
InitRace ==
  /\ photos = {}
  /\ nextId = 1
  /\ photo_count = "0"
  /\ now = 0
  /\ last_dao = [op |-> "none", id |-> NoId, ok |-> FALSE, raised |-> "none"]
  /\ daoOps = 0
  /\ libDirs = {}
  /\ libFiles = {}
  /\ libPartial = {}
  /\ \E f \in SourceFiles :
       /\ files = <<f>>
       /\ events = << progress_updated(1, 1, f.src) >>
  /\ cur = [NoCur EXCEPT !.snap = <<photos, libDirs, libFiles, libPartial>>]
  /\ is_cancelled = FALSE
  /\ cancel_seen = 0
  /\ connected = TRUE
  /\ pc = "check"
  /\ i = 0
  /\ counts = [success |-> 0, skip |-> 0, error |-> 0]
  /\ hist = <<>>
  /\ batches = 1
  /\ faults = 0
  /\ \E g \in SourceFiles : other = [NoOther EXCEPT !.pc = "check", !.file = g]
  /\ dialog = NoDialog

NextRace ==
  \/ LoopTop
  \/ \E rerr \in BOOLEAN, qerr \in BOOLEAN : CheckDup(rerr, qerr)
  \/ \E fault \in CopyFaults : CopyFile(fault)
  \/ \E dberr \in BOOLEAN, xerr \in BOOLEAN : Persist(dberr, xerr)
  \/ Complete
  \/ OtherCheck
  \/ \E stale \in BOOLEAN : OtherCopy(stale)
  \/ \E dberr \in BOOLEAN : OtherPersist(dberr)

SpecRace == InitRace /\ [][NextRace]_vars

(* ------------------------------ claims -------------------------------- *)

Last(q) == q[Len(q)]
ProgressEvents == SelectSeq(events, LAMBDA e : e.sig = "progress_updated")
OutcomeEvents ==
  SelectSeq(events, LAMBDA e : e.sig \in {"photo_imported", "photo_skipped", "error_occurred"})
CompletedEvents == SelectSeq(events, LAMBDA e : e.sig = "import_completed")
SameContent(tbl, f) == { r \in LiveRows(tbl) : r.md5 = f.md5 /\ r.size = f.size }

\* C1: whatever add_photo, update_photo and delete_photo (soft or hard) did,
\* no two non-deleted rows share (md5, size) and no two share path
C1_LiveRowsUnique ==
  \A r1 \in LiveRows(photos), r2 \in LiveRows(photos) :
    r1.id # r2.id =>
      /\ ~(r1.md5 = r2.md5 /\ r1.size = r2.size)
      /\ r1.path # r2.path

\* two live rows exist and an update that would give one the path of the other
\* has just been refused
C1_Witness ==
  /\ Cardinality(LiveRows(photos)) >= 2
  /\ last_dao.op = "update"
  /\ ~last_dao.ok

\* C2: a readable file whose content a live row already holds, examined over
\* an open connection whose query succeeds, is skipped, and while the batch
\* runs exactly one live row holds that content
C2_DuplicateSkipped ==
  \A k \in 1..Len(hist) :
    (hist[k].dup /\ hist[k].conn /\ hist[k].fault = "none") =>
      /\ hist[k].result = "skipped"
      /\ OutcomeEvents[k] = photo_skipped(hist[k].file.src, MsgExists)
      /\ pc \in Running => Cardinality(SameContent(photos, hist[k].file)) = 1

\* a.jpg was imported and its byte-identical copy a_copy.PNG was then skipped
C2_Witness ==
  \E k \in 1..Len(hist) :
    /\ hist[k].dup /\ hist[k].conn /\ hist[k].fault = "none"
    /\ hist[k].result = "skipped"
    /\ \E r \in LiveRows(photos) :
         /\ r.md5 = hist[k].file.md5 /\ r.size = hist[k].file.size
         /\ r.filename # BaseName(generate_target_path(hist[k].file, hist[k].file.mtime))

Sum3(t) == t[1] + t[2] + t[3]

\* C3: when a batch that was never cancelled has finished, the outcome signals
\* are one per candidate, in list order, and the three counts of
\* import_completed sum to the length of the list
C3_EveryFileAccounted ==
  (pc = "done" /\ ~is_cancelled) =>
    /\ Len(OutcomeEvents) = Len(files)
    /\ \A k \in 1..Len(files) : OutcomeEvents[k].path = files[k].src
    /\ Sum3(Last(events).nums) = Len(files)

\* an uncancelled batch of two or more files has finished with at least one
\* error and one other outcome
C3_Witness ==
  /\ pc = "done" /\ ~is_cancelled
  /\ Len(files) >= 2
  /\ Last(events).nums[3] >= 1
  /\ Last(events).nums[1] + Last(events).nums[2] >= 1

\* C4: the k-th progress_updated of a batch carries index k, the length of the
\* candidate list as total and the k-th candidate; there are never more of them
\* than candidates
C4_ProgressInOrder ==
  /\ Len(ProgressEvents) <= Len(files)
  /\ \A k \in 1..Len(ProgressEvents) :
       /\ ProgressEvents[k].nums = <<k, Len(files)>>
       /\ ProgressEvents[k].path = files[k].src
       /\ k <= Len(files)

\* progress has been emitted for the second file of a batch
C4_Witness == Len(ProgressEvents) >= 2

\* C5: a batch emits import_completed at most once, as its last signal, and a
\* worker that has finished has emitted it; a worker that has not finished can
\* always take a step towards it
C5_CompletedOnceAndLast ==
  /\ Len(CompletedEvents) <= 1
  /\ \A k \in 1..Len(events) : events[k].sig = "import_completed" => k = Len(events)
  /\ pc = "done" <=> Len(CompletedEvents) = 1
  /\ pc \in Running =>
       ENABLED (LoopTop \/ Complete \/ (\E rerr \in BOOLEAN, qerr \in BOOLEAN : CheckDup(rerr, qerr))
                \/ (\E fault \in CopyFaults : CopyFile(fault))
                \/ (\E dberr \in BOOLEAN, xerr \in BOOLEAN : Persist(dberr, xerr)))

\* a cancelled batch over an unusable database has emitted import_completed
\* after an error_occurred
C5_Witness ==
  /\ pc = "done" /\ is_cancelled
  /\ Len(events) >= 3
  /\ Last(events).sig = "import_completed"
  /\ \E k \in 1..Len(hist) : ~hist[k].conn

\* C6: once cancel() has set is_cancelled, no progress_updated is emitted for a
\* later file, the file in progress gets its outcome, and the counts of
\* import_completed sum to the number of progress signals, at most the length
\* of the list
C6_CooperativeCancel ==
  /\ is_cancelled =>
       /\ Len(ProgressEvents) = cancel_seen
       /\ Len(OutcomeEvents) <= cancel_seen
  /\ pc \in {"emit", "done"} => Len(OutcomeEvents) = Len(ProgressEvents)
  /\ pc = "done" =>
       /\ Sum3(Last(events).nums) = Len(ProgressEvents)
       /\ Sum3(Last(events).nums) <= Len(files)

\* cancel() came while the first of two files was being copied; that file was
\* imported and the second was never started
C6_Witness ==
  /\ pc = "done" /\ is_cancelled
  /\ cancel_seen = 1
  /\ Len(files) = 2
  /\ Len(hist) = 1
  /\ hist[1].result = "success"

FullyCopied(fs) == fs \ libPartial

\* C7: when the worker is about to insert, the file of the record is completely
\* copied; while a batch runs, every row it inserted names a completely copied
\* file of the library
C7_CopyPrecedesPersist ==
  /\ pc = "persist" => cur.relative_path \in FullyCopied(libFiles)
  /\ pc \in Running =>
       \A k \in 1..Len(hist) :
         hist[k].id # NoId =>
           \E r \in photos : /\ r.id = hist[k].id
                             /\ r.path = hist[k].copied
                             /\ r.path \in FullyCopied(libFiles)

\* one file of the batch was copied and cataloged, another was copied and its
\* insert failed, leaving a copy without a row
C7_Witness ==
  /\ pc \in Running
  /\ \E k \in 1..Len(hist) : hist[k].id # NoId
  /\ \E k \in 1..Len(hist) :
       /\ hist[k].result = "error" /\ hist[k].copied \in libFiles
       /\ \A r \in photos : r.path # hist[k].copied

\* C8: right after a file was skipped as a duplicate, the photos table and the
\* directories and files of the library are what they were when its iteration
\* began
C8_SkipLeavesNoTrace ==
  (pc = "loop" /\ hist # <<>> /\ Last(hist).result = "skipped") =>
    Last(hist).snap = <<photos, libDirs, libFiles, libPartial>>

\* a byte-identical copy dated another day has just been skipped
C8_Witness ==
  /\ pc = "loop" /\ hist # <<>> /\ Last(hist).result = "skipped"
  /\ libFiles # {}
  /\ DateDir(extract_photo_datetime(Last(hist).file)) \notin libDirs

RaisingFaults == {"read", "cursor", "makedirs", "copy", "copy_partial"}

C10_UniquenessFailureIsSkip ==
  \A k \in 1..Len(hist) :
    hist[k].raised = "sqlite3.IntegrityError" =>
      /\ hist[k].result = "skipped"
      /\ OutcomeEvents[k].sig = "photo_skipped"

\* a.jpg was imported, its row soft-deleted, and a second import of a.jpg was
\* refused by UNIQUE(md5, size) and reported as an error
C10_Scenario ==
  /\ batches = 2
  /\ last_dao.op = "soft_delete" /\ last_dao.ok
  /\ hist # <<>>
  /\ Last(hist).raised = "sqlite3.IntegrityError"
  /\ Last(hist).result = "error"
  /\ Last(hist).copied \in libFiles
  /\ LiveRows(photos) = {}

\* whether an insert of (md5, size, path) meets an existing row of tbl with the
\* same content or the same path
Collides(tbl, md5, size, path) ==
  \E r \in tbl : (r.md5 = md5 /\ r.size = size) \/ r.path = path

\* C11: an insert through add_photo (by insert_photo or by the worker) whose
\* (md5, size) or path equals that of an existing row returns no id, adds no
\* row and leaves every field of every existing row as it was
C11_RejectedInsertChangesNothing ==
  [][ /\ \A d \in DaoInserts, dberr \in BOOLEAN :
           (DaoInsert(d, dberr) /\ Collides(photos, d.md5, d.size, d.path)) =>
             (photos' = photos /\ last_dao'.id = NoId)
      /\ (pc = "persist" /\ pc' # "persist"
            /\ Collides(photos, cur.md5, cur.size, cur.relative_path)) =>
             (photos' = photos /\ Last(hist').id = NoId) ]_vars

\* insert_photo has just been refused by a uniqueness constraint of a table
\* that holds a row
C11_Witness ==
  /\ last_dao.op = "insert"
  /\ last_dao.raised = "sqlite3.IntegrityError"
  /\ photos # {}

\* C12: a batch whose catalog could not be opened processes no file: no
\* progress_updated and no outcome signal is emitted, nothing is fingerprinted
\* or copied, and the worker never examines a file without a connection
C12_FailedOpenAbortsBatch ==
  /\ pc \in {"check", "copy", "persist"} => connected
  /\ \A k \in 1..Len(hist) : hist[k].conn
  /\ (pc = "loop" /\ ~connected) => (ProgressEvents = <<>> /\ OutcomeEvents = <<>>)

\* connect failed at the start of a batch of two files; both were fingerprinted
\* and each ended with error_occurred before import_completed
C12_Scenario ==
  /\ pc = "done"
  /\ Len(hist) = 2
  /\ \A k \in 1..2 : ~hist[k].conn /\ hist[k].fault = "cursor" /\ hist[k].result = "error"
  /\ Len(ProgressEvents) = 2
  /\ Last(events).nums = <<0, 0, 2>>

\* arguments of the read queries
QueryPatterns == {"", "%", "a.jpg"}
QueryDates == {0, 20240305, 20240306}
QueryTypes == {"", "jpg", "png"}
QueryMd5s == {"", "h1"}
QueryLimits == {1, 100}

\* the ids of the rows tbl's list and search queries return, over every
\* combination of arguments
Listed(tbl) ==
  { r.id : r \in
      UNION ( { get_recent_photos(tbl, n) : n \in QueryLimits }
              \cup { get_photos_by_type(tbl, ty) : ty \in QueryTypes }
              \cup { get_photos_by_date_range(tbl, d1, d2) : d1 \in QueryDates, d2 \in QueryDates }
              \cup { search_photos(tbl, pat, d1, d2, ty, h, n) :
                       pat \in QueryPatterns, d1 \in QueryDates, d2 \in QueryDates,
                       ty \in QueryTypes, h \in QueryMd5s, n \in QueryLimits } ) }

\* C13: delete_photo(id, soft_delete=True) on a live row takes it out of
\* get_recent_photos, search_photos (every combination of filters),
\* get_photos_by_type and get_photos_by_date_range, and lowers the counts of
\* get_photos_stats and get_library_stats by exactly one
C13_SoftDeletedIsUnlisted ==
  [][ \A id \in 1..(nextId - 1) :
        (DaoDelete(id, TRUE) /\ \E r \in LiveRows(photos) : r.id = id) =>
          /\ id \notin Listed(photos')
          /\ get_photos_stats(photos').total_count = get_photos_stats(photos).total_count - 1
          /\ get_library_stats(photos').photos_count
               = get_library_stats(photos).photos_count - 1 ]_vars

\* of two imported photos one has just been soft-deleted; the other is still
\* listed
C13_Witness ==
  /\ last_dao.op = "soft_delete" /\ last_dao.ok
  /\ \E r \in photos : r.id = last_dao.id /\ r.is_deleted = 1
  /\ Cardinality(Listed(photos)) = 1
  /\ get_photos_stats(photos).total_count = 1

\* C14: get_photo_by_id on the id of a soft-deleted row returns that row, with
\* is_deleted true
C14_SoftDeletedStillFetchable ==
  \A r \in photos :
    r.is_deleted = 1 => get_photo_by_id(photos, r.id) = {PhotoDict(r)}

\* a live row has just been soft-deleted and get_photo_by_id on its id
\* returns None
C14_Scenario ==
  /\ last_dao.op = "soft_delete" /\ last_dao.ok
  /\ \E r \in photos : r.id = last_dao.id /\ r.is_deleted = 1
  /\ get_photo_by_id(photos, last_dao.id) = {}

\* C15: a file whose content is held only by soft-deleted rows when its
\* iteration begins, and whose import meets no failure of the environment,
\* ends imported, and a live row holds its content afterwards
C15_ReimportAfterSoftDelete ==
  \A k \in 1..Len(hist) :
    LET f == hist[k].file
        before == hist[k].snap[1]
    IN (/\ hist[k].conn /\ hist[k].fault = "none"
        /\ \E r \in before : r.md5 = f.md5 /\ r.size = f.size /\ r.is_deleted = 1
        /\ ~LiveContent(before, f)) =>
         /\ hist[k].result = "success"
         /\ pc \in Running => LiveContent(photos, f)

\* the content of a.jpg was held by one soft-deleted row; importing it again
\* copied the file to a_1.jpg, the insert was refused by UNIQUE(md5, size),
\* and no live row holds the content
C15_Scenario ==
  /\ hist # <<>>
  /\ Last(hist).snap[1] # {}
  /\ \A r \in Last(hist).snap[1] : r.is_deleted = 1 /\ r.md5 = Last(hist).file.md5
  /\ Last(hist).fault = "none"
  /\ Last(hist).raised = "sqlite3.IntegrityError"
  /\ Last(hist).result = "error"
  /\ Last(hist).copied = "2024/03/05/a_1.jpg"
  /\ ~LiveContent(photos, Last(hist).file)

Ids(tbl) == { r.id : r \in tbl }

\* C16: the id of a hard-deleted row is never the id of a row again: every
\* step gives a row that is new in the table an id no earlier row ever had
\* (at least the sequence value, which never decreases and stays above every
\* id present), and no step changes the id of a row
C16_IdsNeverReused ==
  /\ [](last_dao.op = "hard_delete" /\ last_dao.ok => last_dao.id \notin Ids(photos))
  /\ [][ /\ \A r \in photos' : r.id \notin Ids(photos) => r.id >= nextId
         /\ nextId' >= nextId
         /\ \A r \in photos' : r.id < nextId' ]_vars

\* the only row was hard-deleted and a later batch inserted a row, under a
\* larger id
C16_Witness ==
  /\ last_dao.op = "hard_delete" /\ last_dao.ok
  /\ batches = 2
  /\ \E k \in 1..Len(hist) : hist[k].id > last_dao.id
  /\ \A r \in photos : r.id > last_dao.id

Suffixed(tm, f, n) == DateDir(tm) \o "/" \o f.name \o "_" \o ToString(n) \o f.ext

\* C18: the file is copied to the requested path when no file is there;
\* otherwise to name_N + extension in the same directory for the smallest
\* N >= 1 with no file of that name; nothing else of the library changes
C18_SmallestFreeSuffix ==
  pc = "persist" =>
    LET f == files[i + 1]
        existing == cur.snap[3]
        requested == DateDir(cur.time) \o "/" \o f.name \o f.ext
    IN /\ IF requested \notin existing
            THEN cur.relative_path = requested
            ELSE \E n \in 1..(Cardinality(existing) + 1) :
                   /\ cur.relative_path = Suffixed(cur.time, f, n)
                   /\ Suffixed(cur.time, f, n) \notin existing
                   /\ \A m \in 1..(n - 1) : Suffixed(cur.time, f, m) \in existing
       /\ libFiles = existing \cup {cur.relative_path}

\* the directory held a.jpg and a_1.jpg and the file went to a_2.jpg
C18_Witness ==
  /\ pc = "persist"
  /\ cur.relative_path = "2024/03/05/a_2.jpg"
  /\ {"2024/03/05/a.jpg", "2024/03/05/a_1.jpg"} \subseteq cur.snap[3]

\* the parsed value of tag name of f, empty when the tag is absent or does not
\* parse
Parsed(f, name) ==
  IF name \in TagNames(f.tags) THEN StrpTime(TagText(f.tags, name)) ELSE {}

\* C20: the time a file is filed under is the value of the first of the
\* original-capture, digitized and modification tags that is present and
\* parses, and the file's modification time when none is
C20_ResolverPriority ==
  pc = "persist" =>
    LET f == files[i + 1]
    IN cur.time \in
         IF Parsed(f, "EXIF DateTimeOriginal") # {} THEN Parsed(f, "EXIF DateTimeOriginal")
         ELSE IF Parsed(f, "EXIF DateTimeDigitized") # {}
           THEN Parsed(f, "EXIF DateTimeDigitized")
         ELSE IF Parsed(f, "Image DateTime") # {} THEN Parsed(f, "Image DateTime")
         ELSE {f.mtime}

\* a file whose original-capture tag does not parse and whose digitized and
\* modification tags both do was filed under the time of the modification tag
C20_Scenario ==
  /\ pc = "persist"
  /\ Parsed(files[i + 1], "EXIF DateTimeOriginal") = {}
  /\ "EXIF DateTimeOriginal" \in TagNames(files[i + 1].tags)
  /\ Parsed(files[i + 1], "EXIF DateTimeDigitized") = {TDigi}
  /\ cur.time = TModi
  /\ cur.relative_path = "2023/03/03/a.jpg"

\* the path generate_target_path asks for, for a file of hist
Requested(h) == PathStr(generate_target_path(h.file, extract_photo_datetime(h.file)))

\* C19: within one batch no two files are copied to the same path and no copy
\* goes to a path that held a file when the iteration began; two imported
\* files that asked for the same path have, while the batch runs, two live
\* rows with distinct paths and both files completely on disk
C19_BatchPathsDistinct ==
  /\ pc = "persist" => cur.relative_path \notin cur.snap[3]
  /\ \A k \in 1..Len(hist) :
       hist[k].copied # "" =>
         /\ hist[k].copied \notin hist[k].snap[3]
         /\ hist[k].copied \in libFiles
  /\ \A j \in 1..Len(hist), k \in 1..Len(hist) :
       (j < k /\ hist[j].copied # "" /\ hist[k].copied # "") =>
         hist[j].copied # hist[k].copied
  /\ \A j \in 1..Len(hist), k \in 1..Len(hist) :
       (/\ j < k /\ pc \in Running
        /\ hist[j].result = "success" /\ hist[k].result = "success"
        /\ Requested(hist[j]) = Requested(hist[k])) =>
         \E r1 \in LiveRows(photos), r2 \in LiveRows(photos) :
           /\ r1.id = hist[j].id /\ r2.id = hist[k].id
           /\ r1.path = hist[j].copied /\ r2.path = hist[k].copied
           /\ r1.path # r2.path
           /\ {r1.path, r2.path} \subseteq FullyCopied(libFiles)

\* in/a.jpg and in2/a.jpg, other content of the same day and name, were
\* imported in one batch: the second went to a_1.jpg and both have live rows
C19_Witness ==
  /\ Len(hist) = 2
  /\ hist[1].file.src = "in/a.jpg" /\ hist[2].file.src = "in2/a.jpg"
  /\ hist[1].copied = "2024/03/05/a.jpg" /\ hist[2].copied = "2024/03/05/a_1.jpg"
  /\ hist[1].result = "success" /\ hist[2].result = "success"
  /\ { r.path : r \in LiveRows(photos) } = {"2024/03/05/a.jpg", "2024/03/05/a_1.jpg"}
  /\ {"2024/03/05/a.jpg", "2024/03/05/a_1.jpg"} \subseteq FullyCopied(libFiles)

\* C21: a metadata mapping with a nested GPS sub-mapping of tuples, stored by
\* insert_photo and read back by get_photo_by_id, equals the original
C21_MetadataRoundTrip ==
  [][ \A d \in DaoInserts :
        (DaoInsert(d, FALSE) /\ last_dao'.ok /\ Truthy(d.exif_data)) =>
          \A p \in get_photo_by_id(photos', last_dao'.id) : p.exif_data = d.exif_data ]_vars

\* the mock mapping was stored and read back: the keys are those of the
\* original at both levels, and GPSLatitude came back as a list of lists
C21_Scenario ==
  /\ last_dao.op = "insert" /\ last_dao.ok
  /\ \E p \in get_photo_by_id(photos, last_dao.id) :
       /\ p.exif_data # MockExif
       /\ [k \in 1..Len(p.exif_data[2]) |-> p.exif_data[2][k][1]]
            = [k \in 1..Len(MockExif[2]) |-> MockExif[2][k][1]]
       /\ p.exif_data[2][3][2][2][2][2]
            = PyList(<< PyList(<<PyInt(39), PyInt(1)>>), PyList(<<PyInt(54), PyInt(1)>>) >>)

\* the size of the non-deleted rows with an id up to n, summed id by id
RECURSIVE LiveSizeUpTo(_)
LiveSizeUpTo(n) ==
  IF n = 0 THEN 0
  ELSE LiveSizeUpTo(n - 1)
       + (IF \E r \in photos : r.id = n /\ r.is_deleted = 0
            THEN (CHOOSE r \in photos : r.id = n).size ELSE 0)

\* C22: get_library_stats and get_photos_stats report the number of
\* non-deleted rows, the sum of their sizes, for each type the number of
\* non-deleted rows of that type (no entry for a type without one), and the
\* largest imported_at among them (none when there is none)
C22_StatsCountLiveRows ==
  LET live == { r \in photos : r.is_deleted # 1 }
      lib == get_library_stats(photos)
      dao == get_photos_stats(photos)
  IN /\ lib.photos_count = Cardinality(live) /\ dao.total_count = Cardinality(live)
     /\ lib.total_size = LiveSizeUpTo(nextId - 1) /\ dao.total_size = LiveSizeUpTo(nextId - 1)
     /\ \A ty \in {"jpg", "png"} :
          LET n == Cardinality({ r \in live : r.type = ty })
          IN IF n = 0
               THEN ty \notin DOMAIN lib.types_count /\ ty \notin DOMAIN dao.type_distribution
               ELSE /\ ty \in DOMAIN lib.types_count /\ lib.types_count[ty] = n
                    /\ ty \in DOMAIN dao.type_distribution /\ dao.type_distribution[ty] = n
     /\ \A r \in live : \E t \in lib.latest_import : t >= r.imported_at
     /\ \A t \in lib.latest_import : \E r \in live : r.imported_at = t
     /\ dao.latest_import = lib.latest_import

\* of two imported photos of different sizes, one was soft-deleted
C22_Witness ==
  /\ last_dao.op = "soft_delete" /\ last_dao.ok
  /\ Cardinality(photos) = 2
  /\ get_library_stats(photos).photos_count = 1
  /\ get_library_stats(photos).total_size \in {10, 20}
  /\ SumSize(photos) = 30

\* C23: with two workers on one database, no two rows ever share (md5, size);
\* when both workers inserted byte-identical content, the second insert was
\* refused (by the uniqueness constraint unless another database error came
\* first) and at most one of the two ended imported
C23_RaceLeavesOneRecord ==
  /\ \A r1 \in photos, r2 \in photos :
       (r1.md5 = r2.md5 /\ r1.size = r2.size) => r1 = r2
  /\ (/\ hist # <<>> /\ hist[1].copied # ""
      /\ other.pc = "done" /\ other.result # "skipped"
      /\ other.file.md5 = hist[1].file.md5 /\ other.file.size = hist[1].file.size) =>
       /\ ~(hist[1].result = "success" /\ other.result = "success")
       /\ hist[1].raised = "sqlite3.IntegrityError"
            \/ other.raised = "sqlite3.IntegrityError"
            \/ "sqlite3.Error" \in {hist[1].raised, other.raised}

\* both workers found the content of a.jpg to be new and copied it; the first
\* inserted its row and the insert of the second was refused
C23_Witness ==
  /\ hist # <<>> /\ hist[1].result = "success" /\ ~hist[1].dup
  /\ other.pc = "done" /\ other.raised = "sqlite3.IntegrityError"
  /\ other.file.md5 = hist[1].file.md5
  /\ other.relative_path # hist[1].copied
  /\ {other.relative_path, hist[1].copied} \subseteq libFiles
  /\ Cardinality(photos) = 1

\* C24: a copied file lies in <year>/<month>/<day> of its capture time,
\* directly under the library root; for a file without date tags that is the
\* day of its modification time; the directory and its parents exist
\* afterwards, whether or not they existed before, and no other directory was
\* made
C24_FiledUnderCaptureDay ==
  pc = "persist" =>
    LET f == files[i + 1]
        day == cur.time.Y \o "/" \o cur.time.m \o "/" \o cur.time.d
    IN /\ cur.relative_path = day \o "/" \o cur.filename
       /\ f.tags = {} => day = f.mtime.Y \o "/" \o f.mtime.m \o "/" \o f.mtime.d
       /\ libDirs = cur.snap[2] \cup { cur.time.Y, cur.time.Y \o "/" \o cur.time.m, day }

\* a file without date tags, modified on 2024-03-05 at 10:00:00, was copied
\* into 2024/03/05, a directory that existed before
C24_Witness ==
  /\ pc = "persist"
  /\ files[i + 1].tags = {}
  /\ cur.time = T0305
  /\ cur.relative_path = "2024/03/05/a_1.jpg"
  /\ "2024/03/05" \in cur.snap[2]

\* C25: a file that is readable and copyable, whose content no row holds and
\* whose copy goes to a path no row names, examined over an open connection
\* whose statements succeed, ends imported whether extract_exif_data returned
\* a mapping, returned None or failed inside; in the last two cases its row
\* holds NULL in exif_json, in the first the JSON document of the mapping
C25_MetadataNeverFailsImport ==
  \A k \in 1..Len(hist) :
    LET f == hist[k].file
        before == hist[k].snap[1]
    IN (/\ hist[k].conn /\ hist[k].fault \in {"none", "exif"}
        /\ hist[k].copied # ""
        /\ \A r \in before :
             ~(r.md5 = f.md5 /\ r.size = f.size) /\ r.path # hist[k].copied) =>
         /\ hist[k].result = "success"
         /\ OutcomeEvents[k].sig = "photo_imported"
         /\ pc \in Running =>
              \E r \in photos :
                /\ r.id = hist[k].id
                /\ (hist[k].fault = "exif" \/ f.exif = Null) => r.exif_json = Null
                /\ (hist[k].fault = "none" /\ f.exif # Null) =>
                     (r.exif_json # Null /\ r.exif_json[1] = "object")

\* one batch imported a file whose metadata could not be read and a file
\* without metadata, both with NULL in exif_json
C25_Witness ==
  /\ pc \in Running
  /\ Len(hist) = 2
  /\ hist[1].fault = "exif" /\ hist[1].result = "success" /\ hist[1].file.exif # Null
  /\ hist[2].fault = "none" /\ hist[2].result = "success" /\ hist[2].file.exif = Null
  /\ \A r \in photos : r.exif_json = Null

\* C26: search_photos called with an md5 returns the live record that has this
\* md5 whatever its size, and returns the empty list only when no live record
\* has this md5
C26_SearchByMd5IgnoresSize ==
  \A md5 \in QueryMd5s \ {""} :
    LET found == search_photos(photos, "", 0, 0, "", md5, 100)
    IN /\ \A p \in found : p.md5 = md5 /\ p.is_deleted = 0
       /\ found = {} <=> ~\E r \in LiveRows(photos) : r.md5 = md5

\* a live record of 10 bytes has the md5 searched for and the search returns
\* the empty list
C26_Scenario ==
  \E r \in LiveRows(photos) :
    /\ r.md5 = "h1" /\ r.size = 10
    /\ search_photos(photos, "", 0, 0, "", "h1", 100) = {}

\* C27: delete_photo_record(id) on a live record soft-deletes it: the row has
\* is_deleted = 1 afterwards, the call returned True, and get_all_photos no
\* longer returns the record
C27_DeleteRecordSoftDeletes ==
  [][ \A id \in 1..(nextId - 1) :
        (DmDeleteRecord(id) /\ \E r \in LiveRows(photos) : r.id = id) =>
          /\ last_dao'.ok
          /\ \E r \in photos' : r.id = id /\ r.is_deleted = 1
          /\ \A p \in get_all_photos(photos') : p.id # id ]_vars

\* delete_photo_record has just returned False on the id of a live record,
\* which get_all_photos still returns
C27_Scenario ==
  /\ last_dao.op = "delete_photo_record"
  /\ ~last_dao.ok /\ last_dao.raised = "sqlite3.OperationalError"
  /\ \E r \in LiveRows(photos) : r.id = last_dao.id
  /\ \E p \in get_all_photos(photos) : p.id = last_dao.id

\* C28: in a batch started by MainWindow._start_import, once the cancel button
\* has been clicked while the worker was running, is_cancelled is true, no
\* progress_updated is emitted for a later file, and import_completed follows
C28_DialogCancelStopsWorker ==
  dialog.clicked # NoClick =>
    /\ is_cancelled
    /\ Len(ProgressEvents) = dialog.clicked

\* the cancel button was clicked while the first of two files was being
\* copied; is_cancelled stayed false and the worker went on to import the
\* second file
C28_Scenario ==
  /\ pc = "done" /\ ~is_cancelled
  /\ dialog.worker /\ ~dialog.import_worker
  /\ dialog.clicked = 1
  /\ Len(files) = 2 /\ Len(hist) = 2
  /\ hist[2].result = "success"

\* C29: after any sequence of add_photo and delete_photo (soft or hard)
\* operations the value under the config key 'photo_count' is the number of
\* non-deleted rows of photos
C29_PhotoCountIsLiveCount ==
  photo_count = ToString(Cardinality({ r \in photos : r.is_deleted = 0 }))

\* the only record has just been deleted by delete_photo, no live row is left
\* and 'photo_count' still holds "1"
C29_Scenario ==
  /\ last_dao.op \in {"soft_delete", "hard_delete"} /\ last_dao.ok
  /\ LiveRows(photos) = {}
  /\ photo_count = "1"

\* the rows and the complete library files present when the batch began
BatchBase == IF hist = <<>> THEN <<photos, FullyCopied(libFiles)>>
             ELSE <<hist[1].snap[1], hist[1].snap[3] \ hist[1].snap[4]>>
RowsAdded == photos \ BatchBase[1]
FilesCopied == FullyCopied(libFiles) \ BatchBase[2]
ErrorsAfterCopy == { k \in 1..Len(hist) : hist[k].result = "error" /\ hist[k].copied # "" }

\* C30: between the files of a batch and at its end the success count is the
\* number of rows the batch added, and the number of files it copied is that
\* count plus the number of files that ended in error after their copy; the
\* imported count passed to import_completed is that success count
C30_BatchAccounting ==
  /\ [](pc \in {"loop", "emit"} =>
         /\ counts.success = Cardinality(RowsAdded)
         /\ Cardinality(FilesCopied) = counts.success + Cardinality(ErrorsAfterCopy)
         /\ \A k \in ErrorsAfterCopy :
              /\ hist[k].copied \in FilesCopied
              /\ \A r \in photos : r.path # hist[k].copied \/ r \in BatchBase[1])
  /\ [][Complete =>
         /\ Last(events').nums[1] = Cardinality(RowsAdded')
         /\ Cardinality(FilesCopied') = Last(events').nums[1] + Cardinality(ErrorsAfterCopy')]_vars

\* a finished batch of two files: one imported, one whose insert failed after
\* its copy, two files copied, one row added
C30_Witness ==
  /\ pc = "done" /\ daoOps = 0 /\ batches = 1
  /\ Len(hist) = 2
  /\ Last(events).nums = <<1, 0, 1>>
  /\ Cardinality(ErrorsAfterCopy) = 1
  /\ Cardinality(FilesCopied) = 2
  /\ Cardinality(RowsAdded) = 1

====
